---- MODULE Spec2Model ----
(***************************************************************************)
(* SRTTranslator (lib/srtTranslator.ts): batching, the bounded-concurrency *)
(* scheduler limitConcurrentPromises, the retry loop of translateBatch and *)
(* the reassembly of translate.  A step is one job of the event loop: the  *)
(* code that runs between two awaits, or one promise reaction.  Promise    *)
(* jobs run in the order they were queued; a backend call settles at any   *)
(* time.                                                                   *)
(***************************************************************************)
EXTENDS Integers, Sequences, FiniteSets, TLC

\* ------------------------------------------------------------------ bounds
MaxCaptions == 3
MaxBatchSize == 3
MaxConcurrent == 3
MaxOmit == 2
MaxStubCaptions == 2
MaxCues == 2
MaxForeignCaptions == 2

\* omitTimes of a stub backend that never returns omitId
Forever == MaxOmit + 1

VARIABLES
    captions,            \* the argument of translate
    batchSize,           \* this.batchSize
    concurrentRequests,  \* this.concurrentRequests
    sourceLanguage,      \* this.sourceLanguage
    targetLanguage,      \* this.targetLanguage
    pc,                  \* where translate stands: idle, loop, race, raceWon, raceLost,
                         \* all, allOk, allFailed, returned, rejected
    rejection,           \* why translate rejected: none, backend, emit
    batches,             \* const batches (translate)
    nextBatch,           \* 1-based position of the for..of loop of limitConcurrentPromises
    status,              \* per batch task: idle, calling (backend call in flight),
                         \* answered (the call settled), returning / throwing
                         \* (translateBatch settled), fulfilled / rejected (the promise
                         \* p().then(..) kept in executing settled)
    request,             \* per batch task, the units of its backend call in flight
    languages,           \* per batch task, the languages its last backend call was given
    answer,              \* per batch task, what its settled backend call gave
    translated,          \* per batch task, translatedCaptions of translateBatch
    results,             \* const results (limitConcurrentPromises)
    executing,           \* const executing (limitConcurrentPromises), by task index
    finallyReg,          \* tasks whose promise.finally(..delete..) has been registered
    raceSet,             \* the promises given to the pending Promise.race
    allSet,              \* the promises given to Promise.all
    allDone,             \* the promises of allSet that Promise.all has seen fulfilled
    queue,               \* the promise jobs queued, first in first out
    events,              \* the signals emitted, in order
    output,              \* the value translate returned
    outputRefs,          \* the objects that the records of output are: the input
                         \* captions are the objects 1..N, in order
    failed,              \* history: some backend call has failed
    omitId,              \* stub backend: the id it omits
    omitTimes,           \* stub backend: how often it omits omitId before returning it
    omitted,             \* stub backend: how often it has omitted omitId so far
    document,            \* SRTParser: the document read, by its structure
    input,               \* SRTParser: the text of the document
    EOL,                 \* SRTParser: this.EOL
    cpc,                 \* SRTParser: idle, input, parsed, written, reparsed, done
    parsed,              \* SRTParser: parse(input)
    written,             \* SRTParser: stringify(parsed)
    reparsed,            \* SRTParser: parse(written)
    periods,             \* SRTParser: parse(input with periods for its commas)
    storedSettings,      \* what readSettings() returns: the settings file as an object
    fpc,                 \* the single-file translate flow: idle, start, batchSize,
                         \* concurrentRequests, built
    batchSizeRead,       \* const batchSize of the flow
    concurrentRead,      \* const concurrentRequests of the flow
    translatorInstance,  \* the fields batchSize and concurrentRequests of the
                         \* SRTTranslator that the flow built
    languageCode,        \* getLanguageInfo: its argument
    lpc,                 \* getLanguageInfo: idle, called, returned
    language             \* getLanguageInfo: what it returned

vars == <<captions, batchSize, concurrentRequests, sourceLanguage, targetLanguage,
          pc, rejection, batches, nextBatch, status, request, languages, answer,
          translated, results, executing, finallyReg, raceSet, allSet, allDone,
          queue, events, output, outputRefs, failed, omitId, omitTimes, omitted,
          document, input, EOL, cpc, parsed, written, reparsed, periods,
          storedSettings, fpc, batchSizeRead, concurrentRead, translatorInstance,
          languageCode, lpc, language>>

\* the state of the translator
translator == <<captions, batchSize, concurrentRequests, sourceLanguage,
                targetLanguage, pc, rejection, batches, nextBatch, status, request,
                languages, answer, translated, results,
                executing, finallyReg, raceSet, allSet, allDone, queue, events,
                output, outputRefs, failed, omitId, omitTimes, omitted>>

\* the state of the parser: no step of the translator changes it
codec == <<document, input, EOL, cpc, parsed, written, reparsed, periods>>

\* the state of the single-file translate flow: no step of the translator or
\* of the parser changes it
flow == <<storedSettings, fpc, batchSizeRead, concurrentRead, translatorInstance>>

\* the state of a call of getLanguageInfo: no other step changes it
lookup == <<languageCode, lpc, language>>

\* what the caller configured
config == <<captions, batchSize, concurrentRequests, sourceLanguage, targetLanguage>>

\* the fields that the constructor set
fields == <<batchSize, concurrentRequests, sourceLanguage, targetLanguage>>

\* the stub backend's own state
stub == <<omitId, omitTimes, omitted>>

\* ---------------------------------------------------------------- helpers
Min(a, b) == IF a < b THEN a ELSE b

Range(s) == {s[i] : i \in DOMAIN s}

\* Array.prototype.find with the predicate c.id === id: the first unit, or none
FindIndex(seq, id) ==
    IF \E i \in DOMAIN seq : seq[i].id = id
    THEN CHOOSE i \in DOMAIN seq :
            /\ seq[i].id = id
            /\ \A j \in DOMAIN seq : seq[j].id = id => i <= j
    ELSE 0

\* Array.prototype.slice(from, to) with 0-based from and exclusive to
Slice(array, from, to) == SubSeq(array, from + 1, Min(to, Len(array)))

\* ------------------------------------------------------------------ input
\* A caption at position i with the given id; the timing fields and the
\* text are distinct per position.
Caption(i, id) ==
    [id |-> id,
     startTime |-> <<0, 0, i, 0>>, startSeconds |-> i,
     endTime |-> <<0, 0, i + 1, 500>>, endSeconds |-> i + 1,
     text |-> <<"src", i>>]

\* ids are opaque: id sequences are taken up to renaming (the first
\* occurrences are 1, 2, ..)
UpToRenaming(n) ==
    {s \in [1..n -> 1..n] :
        \A i \in 1..n : s[i] <= 1 + Cardinality({s[j] : j \in 1..(i-1)})}

\* the documents with unique ids
UniqueIdSeqs == {[i \in 1..n |-> i] : n \in 1..MaxCaptions}

\* the documents: unique ids at every length, repeated ids below the longest
IdSeqs == UniqueIdSeqs \cup UNION {UpToRenaming(n) : n \in 0..(MaxCaptions - 1)}

\* the documents translated against the stub backend
StubIdSeqs == {[i \in 1..n |-> i] : n \in 1..MaxStubCaptions}

\* the backend's translation of a source text
Tr(text) == <<"tr", text>>

\* -------------------------------------------------------- splitIntoBatches
\* the loop run while i + batchSize <= array.length: the last, short batch is lost
RECURSIVE SplitWholeLoop(_, _, _, _)
SplitWholeLoop(array, size, i, acc) ==
    IF i + size <= Len(array)
    THEN SplitWholeLoop(array, size, i + size, Append(acc, Slice(array, i, i + size)))
    ELSE acc

splitWholeBatches(array, size) == SplitWholeLoop(array, size, 0, <<>>)

RECURSIVE SplitLoop(_, _, _, _)
SplitLoop(array, size, i, acc) ==
    IF i < Len(array)
    THEN SplitLoop(array, size, i + size, Append(acc, Slice(array, i, i + size)))
    ELSE acc

\* the loop body run before the loop test: one batch at least
splitAtLeastOnce(array, size) ==
    IF Len(array) = 0 THEN <<<<>>>> ELSE SplitLoop(array, size, 0, <<>>)

splitIntoBatches(array, size) == SplitLoop(array, size, 0, <<>>)

\* the captions handed on whole, timing fields included
wholeCaptions(caps) == caps

\* captions.map(caption => ({id, text}))
translateCaptions(caps) == [i \in DOMAIN caps |-> [id |-> caps[i].id, text |-> caps[i].text]]

\* --------------------------------------------------------------- the tasks
Tasks == 1..Len(batches)

\* the promise p().then(..) of task b has settled
Settled(b) == status[b] \in {"fulfilled", "rejected"}

\* what a settled backend call gave: a response, or a failure
Response(units) == [ok |-> TRUE, units |-> units]

Failure == [ok |-> FALSE, units |-> <<>>]

\* the filter kept out: a task returns after its first response
missingNoRetry(batch, translatedCaptions) == <<>>

\* the filter run over the head of the batch only
missingFirstOnly(batch, translatedCaptions) ==
    SelectSeq(SubSeq(batch, 1, 1), LAMBDA caption : FindIndex(translatedCaptions, caption.id) = 0)

\* the whole batch again while any unit of it is missing
missingWholeBatch(batch, translatedCaptions) ==
    IF \E i \in DOMAIN batch : FindIndex(translatedCaptions, batch[i].id) = 0
    THEN batch
    ELSE <<>>

\* captions.filter(caption => translatedCaptions.find(c => c.id === caption.id) === undefined)
missingTranslations(batch, translatedCaptions) ==
    SelectSeq(batch, LAMBDA caption : FindIndex(translatedCaptions, caption.id) = 0)

\* the retried units appended twice
accumulateTwice(translatedCaptions, retriedCaptions) ==
    translatedCaptions \o retriedCaptions \o retriedCaptions

\* translatedCaptions = retriedCaptions: the earlier responses are dropped
accumulateOverwrite(translatedCaptions, retriedCaptions) == retriedCaptions

\* [...translatedCaptions, ...retriedCaptions] (the first response is appended
\* to the empty sequence)
accumulate(translatedCaptions, retriedCaptions) == translatedCaptions \o retriedCaptions

\* The backend answers a call with the translations of any part of the request.
Responses(req) ==
    {[i \in DOMAIN kept |-> [id |-> kept[i].id, text |-> Tr(kept[i].text)]] :
        kept \in {SelectSeq(req, LAMBDA u : u \in S) : S \in SUBSET Range(req)}}

\* ---------------------------------------------------------- promise jobs
Job(kind, b) == [kind |-> kind, task |-> b]

\* the continuation of limitConcurrentPromises / enqueue after an await
Main == Job("main", 0)

Ready(job) == queue # <<>> /\ Head(queue) = job

\* the tasks of a set in insertion order (executing is filled in batch order)
RECURSIVE InOrder(_)
InOrder(set) ==
    IF set = {} THEN <<>>
    ELSE LET b == CHOOSE x \in set : \A y \in set : x <= y
         IN <<b>> \o InOrder(set \ {b})

\* p.then(resolve, reject) on every promise of the set, in order: the reaction
\* of a promise that has already settled is queued at once
ReactionsNow(kind, set) ==
    LET settled == SelectSeq(InOrder(set), LAMBDA b : Settled(b))
    IN [i \in DOMAIN settled |-> Job(kind, settled[i])]

\* The reactions queued when the promise of task b settles, in the order they
\* were registered: finally (registered when enqueue returned), then the
\* pending Promise.race or Promise.all.  The task whose enqueue waits in the
\* race has no finally callback yet.
ReactionsOnSettle(b) ==
    (IF b \in finallyReg THEN <<Job("finally", b)>> ELSE <<>>)
    \o (IF pc \in {"race", "raceWon", "raceLost"} /\ b \in raceSet
        THEN <<Job("race", b)>> ELSE <<>>)
    \o (IF pc \in {"all", "allOk", "allFailed"} /\ b \in allSet
        THEN <<Job("all", b)>> ELSE <<>>)

\* ------------------------------------------------------------- reassembly
\* translatedCaption?.text ?? caption.text
translatedText(caption, translatedCaptions) ==
    LET k == FindIndex(translatedCaptions, caption.id)
    IN IF k = 0 THEN caption.text ELSE translatedCaptions[k].text

\* the output built from the translated units, in the order they completed
ReassembleInCompletionOrder(caps, translatedCaptions) ==
    [k \in DOMAIN translatedCaptions |->
        [caps[FindIndex(caps, translatedCaptions[k].id)]
            EXCEPT !.text = translatedCaptions[k].text]]

\* the timing fields taken from the caption at the unit's position in the results
ReassembleByPosition(caps, translatedCaptions) ==
    [i \in DOMAIN caps |->
        LET k == FindIndex(translatedCaptions, caps[i].id)
            from == IF k \in DOMAIN caps THEN caps[k] ELSE caps[i]
        IN [from EXCEPT !.id = caps[i].id,
                        !.text = translatedText(caps[i], translatedCaptions)]]

\* captions.map(caption => ({...caption, text: ...}))
Reassemble(caps, translatedCaptions) ==
    [i \in DOMAIN caps |-> [caps[i] EXCEPT !.text = translatedText(caps[i], translatedCaptions)]]

\* the callback returns the caption it was given
SameRecords(caps) == [i \in DOMAIN caps |-> i]

\* the objects that captions.map(caption => ({...caption, text: ..})) returns:
\* the spread makes a new object for every caption, none of the N of the input
NewRecords(caps) == [i \in DOMAIN caps |-> Len(caps) + i]

\* the callback assigns the text to the caption it was given
InputOverwritten(caps, translatedCaptions) == Reassemble(caps, translatedCaptions)

\* the input captions after captions.map(..): the callback reads its caption
\* and assigns to none of its fields
InputAfterMap(caps, translatedCaptions) == caps

\* the captions for which find returns undefined, in order
Unmatched(caps, translatedCaptions) ==
    SelectSeq(caps, LAMBDA caption : FindIndex(translatedCaptions, caption.id) = 0)

ErrorEvent(caption) == [type |-> "error", id |-> caption.id]

\* what is registered for 'error' when translate emits it: nothing, a
\* listener that throws (onError of modes/single.ts), a listener that returns
ErrorListeners == {"none", "throws", "logs"}

\* emit('error', ..) throws when no listener is registered (EventEmitter) and
\* when the listener throws
EmitErrorThrows(errorListener) == errorListener \in {"none", "throws"}

\* ---------------------------------------------------------------- actions
\* this.translateMethod(.., this.sourceLanguage, this.targetLanguage)
CallLanguages == <<sourceLanguage, targetLanguage>>

\* translate up to the call of limitConcurrentPromises, whose first segment
\* runs in the same job
Translate ==
    /\ pc = "idle"
    /\ batches' = splitIntoBatches(translateCaptions(captions), batchSize)
    /\ events' = Append(events, [type |-> "start", captions |-> Len(captions),
                                 batches |-> Len(batches')])
    /\ status' = [b \in 1..Len(batches') |-> "idle"]
    /\ request' = [b \in 1..Len(batches') |-> <<>>]
    /\ languages' = [b \in 1..Len(batches') |-> <<>>]
    /\ answer' = [b \in 1..Len(batches') |-> Response(<<>>)]
    /\ translated' = [b \in 1..Len(batches') |-> <<>>]
    /\ nextBatch' = 1
    /\ pc' = "loop"
    /\ queue' = <<Main>>
    /\ UNCHANGED <<lookup, flow, codec, config, outputRefs, stub, rejection, results,
                   executing, finallyReg, raceSet, allSet, allDone, output, failed>>

\* the promises taken from the last batch to the first
TaskAtReversed(position) == Len(batches) + 1 - position

\* batches.map(batch => () => this.translateBatch(batch)): the promise function
\* at a position of the for..of loop is the task of the batch at that position
TaskAt(position) == position

\* executing.size > this.concurrentRequests: the limit taken one too high
AtLimitOffByOne(size) == size > concurrentRequests

\* no limit: enqueue never waits
AtLimitNever(size) == FALSE

\* executing.size >= this.concurrentRequests
AtLimit(size) == size >= concurrentRequests

\* one iteration of the for..of loop: enqueue(promise) up to its await or its return
Enqueue ==
    /\ Ready(Main)
    /\ pc = "loop"
    /\ nextBatch <= Len(batches)
    /\ status' = [status EXCEPT ![TaskAt(nextBatch)] = "calling"]
    /\ request' = [request EXCEPT ![TaskAt(nextBatch)] = batches[TaskAt(nextBatch)]]
    /\ languages' = [languages EXCEPT ![TaskAt(nextBatch)] = CallLanguages]
    /\ executing' = executing \cup {TaskAt(nextBatch)}
    /\ IF AtLimit(Cardinality(executing'))
       THEN /\ pc' = "race"
            /\ raceSet' = executing'
            /\ queue' = Tail(queue) \o ReactionsNow("race", executing')
            /\ UNCHANGED <<finallyReg, nextBatch>>
       ELSE /\ finallyReg' = finallyReg \cup {TaskAt(nextBatch)}
            /\ nextBatch' = nextBatch + 1
            /\ queue' = Append(Tail(queue), Main)
            /\ UNCHANGED <<pc, raceSet>>
    /\ UNCHANGED <<lookup, flow, codec, config, outputRefs, stub, rejection, batches,
                   answer, translated, results, allSet, allDone, events, output, failed>>

\* the backend call of task b settles with resp (a response, or Failure):
\* the continuation of translateBatch is queued
Settle(b, resp) ==
    /\ b \in Tasks
    /\ status[b] = "calling"
    /\ status' = [status EXCEPT ![b] = "answered"]
    /\ answer' = [answer EXCEPT ![b] = resp]
    /\ queue' = Append(queue, Job("resume", b))
    /\ UNCHANGED <<lookup, flow, codec, config, outputRefs, languages, pc, rejection,
                   batches, nextBatch, request, translated, results, executing, finallyReg,
                   raceSet, allSet, allDone, events, output>>

BackendResolve(b) ==
    /\ \E resp \in Responses(request[b]) : Settle(b, Response(resp))
    /\ UNCHANGED <<failed, stub>>

BackendReject(b) ==
    /\ Settle(b, Failure)
    /\ failed' = TRUE
    /\ UNCHANGED stub

\* the text of a unit that the backend returns for an id it was not asked
\* for: the translation of a text that it was given for no caption
ForeignText == Tr(<<"src", 0>>)

ForeignUnit(id) == [id |-> id, text |-> ForeignText]

\* no response has held a foreign unit so far
NoForeignYet ==
    \A b \in Tasks : \A k \in DOMAIN translated[b] \cup DOMAIN answer[b].units :
        /\ k \in DOMAIN translated[b] => translated[b][k].text # ForeignText
        /\ k \in DOMAIN answer[b].units => answer[b].units[k].text # ForeignText

\* the ids of the input that the request does not hold
ForeignIds(req) ==
    {captions[i].id : i \in DOMAIN captions} \ {req[k].id : k \in DOMAIN req}

\* A backend that breaks its contract: it answers a call with translations of
\* a part of the request, followed by a unit for an id that it was not asked
\* for. It does so once in a run.
BackendResolveForeign(b) ==
    /\ b \in Tasks
    /\ NoForeignYet
    /\ \E resp \in Responses(request[b]) : \E id \in ForeignIds(request[b]) :
          Settle(b, Response(Append(resp, ForeignUnit(id))))
    /\ UNCHANGED <<failed, stub>>

\* The stub backend: it omits omitId from its first omitTimes responses to a
\* request that holds it (from every response when omitTimes = Forever) and
\* returns every other unit of the request; no call fails.
StubOmits(req) ==
    /\ \E i \in DOMAIN req : req[i].id = omitId
    /\ omitTimes = Forever \/ omitted < omitTimes

StubResponse(req) ==
    LET kept == IF StubOmits(req)
                THEN SelectSeq(req, LAMBDA u : u.id # omitId)
                ELSE req
    IN [i \in DOMAIN kept |-> [id |-> kept[i].id, text |-> Tr(kept[i].text)]]

StubResolve(b) ==
    /\ b \in Tasks
    /\ Settle(b, Response(StubResponse(request[b])))
    /\ omitted' = IF StubOmits(request[b]) THEN Min(omitted + 1, MaxOmit) ELSE omitted
    /\ UNCHANGED <<failed, omitId, omitTimes>>

\* a failed call taken for an empty response
callFailedIgnored(ans) == FALSE

\* await this.translateMethod(..) throws: the call was rejected
callFailed(ans) == ~ans.ok

\* translateBatch of task b resumes after await this.translateMethod(..): it
\* throws, calls the backend again with the missing units, or returns
translateBatch(b) ==
    LET translatedCaptions == accumulate(translated[b], answer[b].units)
        missing == missingTranslations(batches[b], translatedCaptions)
    IN /\ Ready(Job("resume", b))
       /\ answer' = [answer EXCEPT ![b] = Response(<<>>)]
       /\ IF callFailed(answer[b])
          THEN /\ status' = [status EXCEPT ![b] = "throwing"]
               /\ request' = [request EXCEPT ![b] = <<>>]
               /\ queue' = Append(Tail(queue), Job("then", b))
               /\ UNCHANGED <<translated, languages>>
          ELSE /\ translated' = [translated EXCEPT ![b] = translatedCaptions]
               /\ IF Len(missing) > 0
                  THEN /\ status' = [status EXCEPT ![b] = "calling"]
                       /\ request' = [request EXCEPT ![b] = missing]
                       /\ languages' = [languages EXCEPT ![b] = CallLanguages]
                       /\ queue' = Tail(queue)
                  ELSE /\ status' = [status EXCEPT ![b] = "returning"]
                       /\ request' = [request EXCEPT ![b] = <<>>]
                       /\ queue' = Append(Tail(queue), Job("then", b))
                       /\ UNCHANGED languages
       /\ UNCHANGED <<lookup, flow, codec, config, outputRefs, stub, pc, rejection,
                      batches, nextBatch, results, executing, finallyReg, raceSet, allSet,
                      allDone, events, output, failed>>

\* results = result: what was collected before is dropped
pushAsAssign(array, items) == items

\* array.push(...items)
push(array, items) == array \o items

\* p().then(result => results.push(...result)): the promise kept in executing
\* settles, and its reactions are queued
ThenCallback(b) ==
    /\ Ready(Job("then", b))
    /\ IF status[b] = "returning"
       THEN /\ results' = push(results, translated[b])
            /\ status' = [status EXCEPT ![b] = "fulfilled"]
       ELSE /\ status' = [status EXCEPT ![b] = "rejected"]
            /\ UNCHANGED results
    /\ queue' = Tail(queue) \o ReactionsOnSettle(b)
    /\ UNCHANGED <<lookup, flow, codec, config, outputRefs, languages, stub, pc, rejection,
                   batches, nextBatch, request, answer, translated, executing, finallyReg,
                   raceSet, allSet, allDone, events, output, failed>>

\* the callback of promise.finally: executing.delete(promise)
FinallyDelete(b) ==
    /\ Ready(Job("finally", b))
    /\ executing' = executing \ {b}
    /\ queue' = Tail(queue)
    /\ UNCHANGED <<lookup, flow, codec, config, outputRefs, languages, stub, pc, rejection,
                   batches, nextBatch, status, request, answer, translated, results,
                   finallyReg, raceSet, allSet, allDone, events, output, failed>>

\* the reaction of Promise.race to the promise of task b: the first one settles
\* the race and queues the continuation of enqueue
RaceReaction(b) ==
    /\ Ready(Job("race", b))
    /\ IF pc = "race" /\ b \in raceSet
       THEN /\ pc' = IF status[b] = "fulfilled" THEN "raceWon" ELSE "raceLost"
            /\ queue' = Append(Tail(queue), Main)
       ELSE /\ queue' = Tail(queue)
            /\ UNCHANGED pc
    /\ UNCHANGED <<lookup, flow, codec, config, outputRefs, languages, stub, rejection,
                   batches, nextBatch, status, request, answer, translated, results,
                   executing, finallyReg, raceSet, allSet, allDone, events, output,
                   failed>>

\* enqueue resumes after await Promise.race(executing): it registers the
\* finally callback and returns
RaceResolve ==
    /\ Ready(Main)
    /\ pc = "raceWon"
    /\ finallyReg' = finallyReg \cup {TaskAt(nextBatch)}
    /\ queue' = Tail(queue)
                \o (IF Settled(TaskAt(nextBatch)) THEN <<Job("finally", TaskAt(nextBatch))>> ELSE <<>>)
                \o <<Main>>
    /\ nextBatch' = nextBatch + 1
    /\ pc' = "loop"
    /\ raceSet' = {}
    /\ UNCHANGED <<lookup, flow, codec, config, outputRefs, languages, stub, rejection,
                   batches, status, request, answer, translated, results, executing,
                   allSet, allDone, events, output, failed>>

\* await Promise.race(executing) throws: enqueue, the loop and translate reject
RaceReject ==
    /\ Ready(Main)
    /\ pc = "raceLost"
    /\ pc' = "rejected"
    /\ rejection' = "backend"
    /\ raceSet' = {}
    /\ queue' = Tail(queue)
    /\ UNCHANGED <<lookup, flow, codec, config, outputRefs, languages, stub, batches,
                   nextBatch, status, request, answer, translated, results, executing,
                   finallyReg, allSet, allDone, events, output, failed>>

\* the loop is over: Promise.all(executing), fulfilled at once when executing
\* is empty
AwaitAll ==
    /\ Ready(Main)
    /\ pc = "loop"
    /\ nextBatch > Len(batches)
    /\ allSet' = executing
    /\ allDone' = {}
    /\ IF executing = {}
       THEN /\ pc' = "allOk"
            /\ queue' = Append(Tail(queue), Main)
       ELSE /\ pc' = "all"
            /\ queue' = Tail(queue) \o ReactionsNow("all", executing)
    /\ UNCHANGED <<lookup, flow, codec, config, outputRefs, languages, stub, rejection,
                   batches, nextBatch, status, request, answer, translated, results,
                   executing, finallyReg, raceSet, events, output, failed>>

\* Promise.all fulfilled by the first fulfilment
anyFulfilled(done, set) == done # {}

\* Promise.all is fulfilled when every promise it was given is
allFulfilled(done, set) == done = set

\* the reaction of Promise.all to the promise of task b: the first rejection
\* rejects it, the last fulfilment fulfils it
AllReaction(b) ==
    /\ Ready(Job("all", b))
    /\ IF pc = "all" /\ status[b] = "rejected"
       THEN /\ pc' = "allFailed"
            /\ queue' = Append(Tail(queue), Main)
            /\ UNCHANGED allDone
       ELSE IF pc = "all"
       THEN /\ allDone' = allDone \cup {b}
            /\ IF allFulfilled(allDone', allSet)
               THEN /\ pc' = "allOk"
                    /\ queue' = Append(Tail(queue), Main)
               ELSE /\ queue' = Tail(queue)
                    /\ UNCHANGED pc
       ELSE /\ queue' = Tail(queue)
            /\ UNCHANGED <<pc, allDone>>
    /\ UNCHANGED <<lookup, flow, codec, config, outputRefs, languages, stub, rejection,
                   batches, nextBatch, status, request, answer, translated, results,
                   executing, finallyReg, raceSet, allSet, events, output, failed>>

\* Promise.all resolved: limitConcurrentPromises returns results, translate
\* emits finish, reassembles and returns (or throws from emit)
AllResolve ==
    \E errorListener \in ErrorListeners :
        LET translatedCaptions == results
            unmatched == Unmatched(captions, translatedCaptions)
            finish == Append(events, [type |-> "finish"])
        IN /\ Ready(Main)
           /\ pc = "allOk"
           /\ queue' = Tail(queue)
           /\ IF Len(unmatched) > 0 /\ EmitErrorThrows(errorListener)
              THEN /\ events' = Append(finish, ErrorEvent(unmatched[1]))
                   /\ pc' = "rejected"
                   /\ rejection' = "emit"
                   /\ UNCHANGED <<output, outputRefs>>
              ELSE /\ events' = finish \o [i \in DOMAIN unmatched |-> ErrorEvent(unmatched[i])]
                   /\ output' = Reassemble(captions, translatedCaptions)
                   /\ outputRefs' = NewRecords(captions)
                   /\ pc' = "returned"
                   /\ UNCHANGED rejection
           /\ captions' = InputAfterMap(captions, translatedCaptions)
           /\ UNCHANGED <<lookup, flow, codec, fields, languages, stub, batches, nextBatch,
                          status, request, answer, translated, results, executing,
                          finallyReg, raceSet, allSet, allDone, failed>>

\* Promise.all rejected: limitConcurrentPromises and translate reject
AllReject ==
    /\ Ready(Main)
    /\ pc = "allFailed"
    /\ pc' = "rejected"
    /\ rejection' = "backend"
    /\ queue' = Tail(queue)
    /\ UNCHANGED <<lookup, flow, codec, config, outputRefs, languages, stub, batches,
                   nextBatch, status, request, answer, translated, results, executing,
                   finallyReg, raceSet, allSet, allDone, events, output, failed>>

\* ---------------------------------------------------------- specification
\* JavaScript values: undefined, null, NaN, a number, a string
Value(type, num, str) == [type |-> type, num |-> num, str |-> str]

\* a property that the object does not have, a parameter the caller left out
Undefined == Value("undefined", 0, <<>>)

Null == Value("null", 0, <<>>)

NaN == Value("NaN", 0, <<>>)

Num(n) == Value("number", n, <<>>)

Str(chars) == Value("string", 0, chars)

defaultBatchSize == 500

defaultConcurrentRequests == 10

defaultSourceLanguage == Str(<<"e", "n">>)

defaultTargetLanguage == Str(<<"n", "l">>)

\* value ?? default: the default for undefined and null, and for nothing else
OrDefault(value, default) == IF value \in {Undefined, Null} THEN default ELSE value

\* params of the constructor without languages
NoLanguages == [sourceLanguage |-> Undefined, targetLanguage |-> Undefined]

\* params of the constructor with or without languages
LanguageParams ==
    {NoLanguages, [sourceLanguage |-> Str(<<"d", "e">>), targetLanguage |-> Str(<<"e", "n">>)]}

\* the constructor: this.sourceLanguage = params.sourceLanguage ?? ..
Constructed(params) ==
    /\ sourceLanguage = OrDefault(params.sourceLanguage, defaultSourceLanguage)
    /\ targetLanguage = OrDefault(params.targetLanguage, defaultTargetLanguage)

SchedulerIdle ==
    /\ pc = "idle"
    /\ rejection = "none"
    /\ batches = <<>>
    /\ nextBatch = 1
    /\ status = <<>>
    /\ request = <<>>
    /\ languages = <<>>
    /\ answer = <<>>
    /\ translated = <<>>
    /\ results = <<>>
    /\ executing = {}
    /\ finallyReg = {}
    /\ raceSet = {}
    /\ allSet = {}
    /\ allDone = {}
    /\ queue = <<>>
    /\ events = <<>>
    /\ output = <<>>
    /\ outputRefs = <<>>
    /\ failed = FALSE

\* no document is being read or written
CodecIdle ==
    /\ document = <<>>
    /\ input = <<>>
    /\ EOL = <<"\n">>
    /\ cpc = "idle"
    /\ parsed = <<>>
    /\ written = <<>>
    /\ reparsed = <<>>
    /\ periods = <<>>

\* the single-file translate flow is not running
FlowIdle ==
    /\ storedSettings = [batchSize |-> Undefined, concurrentRequests |-> Undefined]
    /\ fpc = "idle"
    /\ batchSizeRead = Undefined
    /\ concurrentRead = Undefined
    /\ translatorInstance = [batchSize |-> Undefined, concurrentRequests |-> Undefined]

\* getLanguageInfo has not been called
LookupIdle ==
    /\ languageCode = <<>>
    /\ lpc = "idle"
    /\ language = Null

InitCommon ==
    /\ FlowIdle
    /\ LookupIdle
    /\ batchSize \in 1..MaxBatchSize
    /\ concurrentRequests \in 1..MaxConcurrent
    /\ SchedulerIdle
    /\ CodecIdle

Init ==
    /\ captions \in {[i \in DOMAIN s |-> Caption(i, s[i])] : s \in IdSeqs}
    /\ omitId = 0
    /\ omitTimes = 0
    /\ omitted = 0
    /\ Constructed(NoLanguages)
    /\ InitCommon

\* the jobs of translate and of limitConcurrentPromises
Scheduler == Translate \/ Enqueue \/ RaceResolve \/ AwaitAll \/ AllResolve

\* the jobs of the batch tasks and the promise reactions
Reactions ==
    \/ \E b \in Tasks : translateBatch(b)
    \/ \E b \in Tasks : ThenCallback(b)
    \/ \E b \in Tasks : FinallyDelete(b)
    \/ \E b \in Tasks : RaceReaction(b)
    \/ \E b \in Tasks : AllReaction(b)

Next ==
    \/ Scheduler
    \/ Reactions
    \/ RaceReject
    \/ AllReject
    \/ \E b \in Tasks : BackendResolve(b)
    \/ \E b \in Tasks : BackendReject(b)

Spec == Init /\ [][Next]_vars

\* translate against a backend that may return an id it was not asked for
InitForeign ==
    /\ captions \in {[i \in 1..n |-> Caption(i, i)] : n \in 2..MaxForeignCaptions}
    /\ omitId = 0
    /\ omitTimes = 0
    /\ omitted = 0
    /\ Constructed(NoLanguages)
    /\ InitCommon

NextForeign ==
    \/ Next
    \/ \E b \in Tasks : BackendResolveForeign(b)

ForeignSpec == InitForeign /\ [][NextForeign]_vars

\* translate against the stub backend
InitStub ==
    /\ captions \in {[i \in DOMAIN s |-> Caption(i, s[i])] : s \in StubIdSeqs}
    /\ omitId \in {captions[i].id : i \in DOMAIN captions}
    /\ omitTimes \in (0..MaxOmit) \cup {Forever}
    /\ omitted = 0
    /\ \E params \in LanguageParams : Constructed(params)
    /\ InitCommon

NextStub ==
    \/ Scheduler
    \/ Reactions
    \/ \E b \in Tasks : StubResolve(b)

\* The event loop runs every queued job, and the stub answers every call.
RetrySpec ==
    /\ InitStub
    /\ [][NextStub]_vars
    /\ WF_vars(Scheduler \/ Reactions)
    /\ \A b \in 1..MaxStubCaptions : WF_vars(StubResolve(b))

\* ------------------------------------------------------------ SRTParser
\* Strings are sequences of one-character strings.
NL == "\n"

CR == "\r"

Digits == <<"0", "1", "2", "3", "4", "5", "6", "7", "8", "9">>

IsDigit(c) == \E i \in DOMAIN Digits : Digits[i] = c

\* Number / parseInt of a digit string
RECURSIVE ToNumber(_)
ToNumber(str) ==
    IF str = <<>> THEN 0
    ELSE 10 * ToNumber(SubSeq(str, 1, Len(str) - 1))
         + (CHOOSE i \in DOMAIN Digits : Digits[i] = str[Len(str)]) - 1

\* the length of the run of digits of s that starts at position p
RECURSIVE DigitRun(_, _)
DigitRun(s, p) ==
    IF p >= 1 /\ p <= Len(s) /\ IsDigit(s[p]) THEN 1 + DigitRun(s, p + 1) ELSE 0

\* the literal lit stands in s at position p
At(s, p, lit) ==
    /\ p >= 1
    /\ p + Len(lit) - 1 <= Len(s)
    /\ SubSeq(s, p, p + Len(lit) - 1) = lit

\* \d{2}:\d{2}<sep> matched at position m: the position after it, or 0
MinutesSeconds(s, m, sep) ==
    IF /\ DigitRun(s, m) >= 2
       /\ At(s, m + 2, <<":">>)
       /\ DigitRun(s, m + 3) >= 2
       /\ At(s, m + 5, <<sep>>)
    THEN m + 6
    ELSE 0

\* \d{1,2}:\d{2}:\d{2}<sep> matched at position p: the position after it, or 0
TimeHead(s, p, sep) ==
    IF DigitRun(s, p) = 1 /\ At(s, p + 1, <<":">>) THEN MinutesSeconds(s, p + 2, sep)
    ELSE IF DigitRun(s, p) = 2 /\ At(s, p + 2, <<":">>) THEN MinutesSeconds(s, p + 3, sep)
    ELSE 0

Arrow == <<" ", "-", "-", ">", " ">>

\* the milliseconds separator of commaRegEx
commaRegEx == ","

dotRegExWithComma == ","

\* the milliseconds separator of dotRegEx
dotRegEx == "."

NoMatch == [found |-> FALSE]

\* the match that starts at p, with the arrow at position arrow, and ends
\* before position to
Match(s, p, n, arrow, to) ==
    [found |-> TRUE, from |-> p, to |-> to,
     groups |-> <<SubSeq(s, p, p + n - 1), SubSeq(s, p + n + 1, arrow - 1),
                  SubSeq(s, arrow + Len(Arrow), to - 1)>>]

\* \d{1,3} of the end time at position ms2 (0: the end time did not match)
MatchEndMs(s, p, n, arrow, ms2) ==
    IF ms2 > 0 /\ DigitRun(s, ms2) >= 1
    THEN Match(s, p, n, arrow, ms2 + Min(DigitRun(s, ms2), 3))
    ELSE NoMatch

\* ' --> ' at position arrow, after the \d{1,3} that starts at ms1, and then
\* the end time
MatchArrow(s, p, n, ms1, arrow, sep) ==
    IF arrow - ms1 \in 1..3 /\ At(s, arrow, Arrow)
    THEN MatchEndMs(s, p, n, arrow, TimeHead(s, arrow + Len(Arrow), sep))
    ELSE NoMatch

\* \d{1,3} of the start time at position ms1 (0: the start time did not match)
MatchStartMs(s, p, n, ms1, sep) ==
    IF ms1 > 0 THEN MatchArrow(s, p, n, ms1, ms1 + DigitRun(s, ms1), sep) ELSE NoMatch

\* (\d+)\n with n digits at position p, and then the start time
MatchId(s, p, n, sep) ==
    IF n >= 1 /\ At(s, p + n, <<NL>>)
    THEN MatchStartMs(s, p, n, TimeHead(s, p + n + 1, sep), sep)
    ELSE NoMatch

\* commaRegEx (sep ",") or dotRegEx (sep ".") matched at position p:
\* (\d+)\n(\d{1,2}:\d{2}:\d{2},\d{1,3}) --> (\d{1,2}:\d{2}:\d{2},\d{1,3})
MatchAt(s, p, sep) == MatchId(s, p, DigitRun(s, p), sep)

\* the leftmost match at or after position p
RECURSIVE Search(_, _, _)
Search(s, p, sep) ==
    IF p > Len(s) THEN NoMatch
    ELSE LET m == MatchAt(s, p, sep)
         IN IF m.found THEN m ELSE Search(s, p + 1, sep)

\* a split that stops at the first match
SplitFirstOnly(s, p, sep) ==
    LET m == Search(s, p, sep)
    IN IF m.found
       THEN <<SubSeq(s, p, m.from - 1)>> \o m.groups \o <<SubSeq(s, m.to, Len(s))>>
       ELSE <<SubSeq(s, p, Len(s))>>

\* String.prototype.split(regex) from position p on: the pieces between the
\* matches, with the three groups of every match
RECURSIVE Split(_, _, _)
Split(s, p, sep) ==
    LET m == Search(s, p, sep)
    IN IF m.found
       THEN <<SubSeq(s, p, m.from - 1)>> \o m.groups \o Split(s, m.to, sep)
       ELSE <<SubSeq(s, p, Len(s))>>

\* data.replace(/\r/g, '')
RemoveCR(data) == SelectSeq(data, LAMBDA c : c # CR)

parseData(data, sep) == Tail(Split(RemoveCR(data), 1, sep))

WhiteSpace == {" ", "\t", NL, CR}

noTrim(str) == str

\* String.prototype.trim
RECURSIVE trim(_)
trim(str) ==
    IF str = <<>> THEN str
    ELSE IF Head(str) \in WhiteSpace THEN trim(Tail(str))
    ELSE IF str[Len(str)] \in WhiteSpace THEN trim(SubSeq(str, 1, Len(str) - 1))
    ELSE str

\* the position of the first c in str, or 0
IndexOf(str, c) ==
    IF \E i \in DOMAIN str : str[i] = c
    THEN CHOOSE i \in DOMAIN str : str[i] = c /\ \A j \in 1..(i - 1) : str[j] # c
    ELSE 0

\* str.replace(c, by) with a string pattern: the first occurrence only
ReplaceFirst(str, c, by) ==
    LET i == IndexOf(str, c)
    IN IF i = 0 THEN str
       ELSE SubSeq(str, 1, i - 1) \o by \o SubSeq(str, i + 1, Len(str))

\* str.split(c)
RECURSIVE SplitOn(_, _)
SplitOn(str, c) ==
    LET i == IndexOf(str, c)
    IN IF i = 0 THEN <<str>>
       ELSE <<SubSeq(str, 1, i - 1)>> \o SplitOn(SubSeq(str, i + 1, Len(str)), c)

Zeros(n) == [i \in 1..n |-> "0"]

fixedStrDigit(digitCount, str, padEnd) ==
    IF Len(str) = digitCount THEN str
    ELSE IF Len(str) > digitCount THEN SubSeq(str, 1, digitCount)
    ELSE IF padEnd THEN str \o Zeros(digitCount - Len(str))
    ELSE Zeros(digitCount - Len(str)) \o str

correctFormat(time) ==
    LET formattedTime == ReplaceFirst(time, ".", <<",">>)
        parts == SplitOn(formattedTime, ",")
        milliseconds == fixedStrDigit(3, parts[2], TRUE)
        raw == SplitOn(parts[1], ":")
        hours == fixedStrDigit(2, raw[1], FALSE)
        minutes == fixedStrDigit(2, raw[2], FALSE)
        seconds == fixedStrDigit(2, raw[3], FALSE)
    IN hours \o <<":">> \o minutes \o <<":">> \o seconds \o <<",">> \o milliseconds

\* the seconds of a timestamp, counted in thousandths (the value is rounded to
\* three decimals)
timestampToSeconds(srtTimestamp) ==
    LET parts == SplitOn(srtTimestamp, ",")
        milliseconds == ToNumber(parts[2])
        time == SplitOn(parts[1], ":")
    IN (ToNumber(time[1]) * 3600 + ToNumber(time[2]) * 60 + ToNumber(time[3])) * 1000
       + milliseconds

\* the loop of parse over dataArray
RECURSIVE ParseLoop(_, _)
ParseLoop(dataArray, i) ==
    IF i > Len(dataArray) THEN <<>>
    ELSE LET startTime == correctFormat(trim(dataArray[i + 1]))
             endTime == correctFormat(trim(dataArray[i + 2]))
         IN <<[id |-> trim(dataArray[i]),
               startTime |-> startTime,
               startSeconds |-> timestampToSeconds(startTime),
               endTime |-> endTime,
               endSeconds |-> timestampToSeconds(endTime),
               text |-> trim(dataArray[i + 3])]>>
            \o ParseLoop(dataArray, i + 4)

\* the period pattern tried first, the comma pattern as the fallback
parsePeriodsFirst(data) ==
    LET byPeriod == parseData(data, dotRegEx)
        dataArray == IF Len(byPeriod) = 0 THEN parseData(data, commaRegEx) ELSE byPeriod
    IN IF Len(dataArray) = 0 THEN <<>> ELSE ParseLoop(dataArray, 1)

parse(data) ==
    LET byComma == parseData(data, commaRegEx)
        dataArray == IF Len(byComma) = 0 THEN parseData(data, dotRegEx) ELSE byComma
    IN IF Len(dataArray) = 0 THEN <<>> ELSE ParseLoop(dataArray, 1)

\* str with every c replaced by the string by
ReplaceAll(str, c, by) ==
    LET RECURSIVE all(_)
        all(rest) == IF rest = <<>> THEN <<>>
                     ELSE (IF Head(rest) = c THEN by ELSE <<Head(rest)>>) \o all(Tail(rest))
    IN all(str)

\* a stringify that numbers the blocks 1, 2, ..
stringifyRenumbered(caps, eol) ==
    LET RECURSIVE blocks(_)
        blocks(k) ==
            IF k > Len(caps) THEN <<>>
            ELSE <<Digits[k + 1]>> \o eol
                 \o caps[k].startTime \o Arrow \o caps[k].endTime \o eol
                 \o ReplaceFirst(caps[k].text, NL, eol) \o eol \o eol
                 \o blocks(k + 1)
    IN blocks(1)

RECURSIVE stringify(_, _)
stringify(caps, eol) ==
    IF caps = <<>> THEN <<>>
    ELSE Head(caps).id \o eol
         \o Head(caps).startTime \o Arrow \o Head(caps).endTime \o eol
         \o ReplaceFirst(Head(caps).text, NL, eol) \o eol \o eol
         \o stringify(Tail(caps), eol)


\* --------------------------------------------------------- SRT documents
\* The widths of the timestamp fields of a document: the digits of the
\* hours, minutes and seconds (1 or 2) and of the milliseconds (1..3).
Shapes ==
    {[h |-> 2, m |-> 2, s |-> 2, ms |-> 3],
     [h |-> 1, m |-> 2, s |-> 2, ms |-> 3],
     [h |-> 2, m |-> 2, s |-> 2, ms |-> 1],
     [h |-> 2, m |-> 2, s |-> 2, ms |-> 2],
     [h |-> 2, m |-> 1, s |-> 2, ms |-> 3],
     [h |-> 2, m |-> 2, s |-> 1, ms |-> 3],
     [h |-> 1, m |-> 1, s |-> 1, ms |-> 1]}

\* the cue bodies: empty, one line, three lines with a comma
Texts ==
    {<<>>,
     <<"H", "i">>,
     <<"a", ",", NL, "b", NL, "c">>}

LineTerminators == {<<NL>>, <<CR, NL>>}

\* a document: between 0 and MaxCues cues, their headers written with commas,
\* with periods, or in turn with commas and periods (mixed: the first with a
\* comma, periodFirst: the first with a period); ids 1, 2, .. or ids left by
\* an edit (7, 7, 3, ..)
Docs ==
    [shape : Shapes, style : {"comma", "period", "mixed", "periodFirst"}, edited : BOOLEAN,
     eol : LineTerminators, texts : UNION {[1..n -> Texts] : n \in 0..MaxCues}]

\* a number below 10 written with the given width
Field(value, width) == IF width = 1 THEN <<Digits[value + 1]>> ELSE <<"0", Digits[value + 1]>>

\* the timestamp 1:02:0s.456 written with the widths of the shape
Stamp(shape, seconds, sep) ==
    Field(1, shape.h) \o <<":">> \o Field(2, shape.m) \o <<":">> \o Field(seconds, shape.s)
    \o <<sep>> \o SubSeq(<<"4", "5", "6">>, 1, shape.ms)

CueId(doc, i) ==
    IF doc.edited THEN <<Digits[IF i % 3 = 0 THEN 4 ELSE 8]>> ELSE <<Digits[i + 1]>>

CueSep(doc, i) ==
    IF \/ doc.style = "comma"
       \/ doc.style = "mixed" /\ i % 2 = 1
       \/ doc.style = "periodFirst" /\ i % 2 = 0
    THEN "," ELSE "."

RECURSIVE Cues(_, _)
Cues(doc, i) ==
    IF i > Len(doc.texts) THEN <<>>
    ELSE CueId(doc, i) \o doc.eol
         \o Stamp(doc.shape, i, CueSep(doc, i)) \o Arrow
         \o Stamp(doc.shape, i + 1, CueSep(doc, i)) \o doc.eol
         \o ReplaceAll(doc.texts[i], NL, doc.eol) \o doc.eol \o doc.eol
         \o Cues(doc, i + 1)

\* the text of the document; a document without cues is a line of text
Render(doc) == IF Len(doc.texts) = 0 THEN <<"H", "i">> \o doc.eol ELSE Cues(doc, 1)

\* document.replace(/,/g, '.')
PeriodsForCommas(data) == ReplaceAll(data, ",", <<".">>)

\* ----------------------------------------------------------- codec steps
ParseStep ==
    /\ cpc = "input"
    /\ parsed' = parse(input)
    /\ cpc' = "parsed"
    /\ UNCHANGED <<lookup, flow, translator, document, input, EOL, written, reparsed,
                   periods>>

StringifyStep ==
    /\ cpc = "parsed"
    /\ written' = stringify(parsed, EOL)
    /\ cpc' = "written"
    /\ UNCHANGED <<lookup, flow, translator, document, input, EOL, parsed, reparsed,
                   periods>>

ReparseStep ==
    /\ cpc = "written"
    /\ reparsed' = parse(written)
    /\ cpc' = "reparsed"
    /\ UNCHANGED <<lookup, flow, translator, document, input, EOL, parsed, written,
                   periods>>

ParsePeriodsStep ==
    /\ cpc = "reparsed"
    /\ periods' = parse(PeriodsForCommas(input))
    /\ cpc' = "done"
    /\ UNCHANGED <<lookup, flow, translator, document, input, EOL, parsed, written,
                   reparsed>>

\* no translation is running
TranslatorIdle ==
    /\ captions = <<>>
    /\ batchSize = 1
    /\ concurrentRequests = 1
    /\ Constructed(NoLanguages)
    /\ omitId = 0
    /\ omitTimes = 0
    /\ omitted = 0
    /\ SchedulerIdle

CodecInit ==
    /\ TranslatorIdle
    /\ FlowIdle
    /\ LookupIdle
    /\ document \in Docs
    /\ input = Render(document)
    /\ EOL \in LineTerminators
    /\ cpc = "input"
    /\ parsed = <<>>
    /\ written = <<>>
    /\ reparsed = <<>>
    /\ periods = <<>>

CodecNext == ParseStep \/ StringifyStep \/ ReparseStep \/ ParsePeriodsStep

CodecSpec == CodecInit /\ [][CodecNext]_vars

\* ------------------------------------------- the single-file translate flow
\* parseInt(value, 10) of a value without sign or leading white space: the
\* number that the leading digits of String(value) write, NaN if it has none
parseInt(value) ==
    IF value.type = "number" THEN value
    ELSE IF value.type = "string" /\ DigitRun(value.str, 1) > 0
         THEN Num(ToNumber(SubSeq(value.str, 1, DigitRun(value.str, 1))))
         ELSE NaN

\* return parseInt(storedSettings.batchSize, 10) ?? 10
getBatchSize(settings) == OrDefault(parseInt(settings.batchSize), Num(10))

\* return parseInt(storedSettings.concurrentRequests, 10) ?? 5
getConcurrentRequests(settings) == OrDefault(parseInt(settings.concurrentRequests), Num(5))

\* new SRTTranslator(params): the fields batchSize and concurrentRequests
SRTTranslator(params) ==
    [batchSize |-> OrDefault(params.batchSize, Num(defaultBatchSize)),
     concurrentRequests |-> OrDefault(params.concurrentRequests, Num(defaultConcurrentRequests))]

\* what the settings file may hold for a number: nothing (no file, no such
\* property), null, a string, a number that the settings mode accepted
StoredStrings ==
    {Str(<<>>), Str(<<"a", "b", "c">>), Str(<<"1", "2">>), Str(<<"7", "p", "x">>)}

StoredBatchSizes == {Undefined, Null} \cup StoredStrings \cup {Num(1), Num(10), Num(2500)}

StoredConcurrentRequests == {Undefined, Null} \cup StoredStrings \cup {Num(1), Num(5), Num(25)}

\* const batchSize = await getBatchSize()
GetBatchSize ==
    /\ fpc = "start"
    /\ batchSizeRead' = getBatchSize(storedSettings)
    /\ fpc' = "batchSize"
    /\ UNCHANGED <<lookup, translator, codec, storedSettings, concurrentRead,
                   translatorInstance>>

\* const concurrentRequests = await getConcurrentRequests()
GetConcurrentRequests ==
    /\ fpc = "batchSize"
    /\ concurrentRead' = getConcurrentRequests(storedSettings)
    /\ fpc' = "concurrentRequests"
    /\ UNCHANGED <<lookup, translator, codec, storedSettings, batchSizeRead,
                   translatorInstance>>

\* const translatorInstance = new SRTTranslator({batchSize, concurrentRequests, ..})
NewTranslator ==
    /\ fpc = "concurrentRequests"
    /\ translatorInstance' = SRTTranslator([batchSize |-> batchSizeRead,
                                            concurrentRequests |-> concurrentRead])
    /\ fpc' = "built"
    /\ UNCHANGED <<lookup, translator, codec, storedSettings, batchSizeRead,
                   concurrentRead>>

FlowInit ==
    /\ TranslatorIdle
    /\ CodecIdle
    /\ LookupIdle
    /\ storedSettings \in [batchSize : StoredBatchSizes,
                           concurrentRequests : StoredConcurrentRequests]
    /\ fpc = "start"
    /\ batchSizeRead = Undefined
    /\ concurrentRead = Undefined
    /\ translatorInstance = [batchSize |-> Undefined, concurrentRequests |-> Undefined]

FlowNext == GetBatchSize \/ GetConcurrentRequests \/ NewTranslator

FlowSpec == FlowInit /\ [][FlowNext]_vars

\* ---------------------------------------------------------- getLanguageInfo
UpperCase == <<"A", "B", "C", "D", "E", "F", "G", "H", "I", "J", "K", "L", "M", "N", "O", "P", "Q", "R", "S", "T", "U", "V", "W", "X", "Y", "Z">>

LowerCase == <<"a", "b", "c", "d", "e", "f", "g", "h", "i", "j", "k", "l", "m", "n", "o", "p", "q", "r", "s", "t", "u", "v", "w", "x", "y", "z">>

\* String.prototype.toLowerCase, for the letters A to Z
toLowerCase(str) ==
    [i \in DOMAIN str |->
        IF \E k \in DOMAIN UpperCase : UpperCase[k] = str[i]
        THEN LowerCase[CHOOSE k \in DOMAIN UpperCase : UpperCase[k] = str[i]]
        ELSE str[i]]

toUpperCase(str) ==
    [i \in DOMAIN str |->
        IF \E k \in DOMAIN LowerCase : LowerCase[k] = str[i]
        THEN UpperCase[CHOOSE k \in DOMAIN LowerCase : LowerCase[k] = str[i]]
        ELSE str[i]]

\* entries of the language table, in the order of the source, without their
\* localeName
languageData ==
    <<
     [key |-> <<"a", "f">>,
      info |-> [languageName |-> <<"A", "f", "r", "i", "k", "a", "a", "n", "s">>,
               threeLetterCode |-> <<"a", "f", "r">>,
               twoLetterCode |-> <<"a", "f">>]],
     [key |-> <<"e", "n">>,
      info |-> [languageName |-> <<"E", "n", "g", "l", "i", "s", "h">>,
               threeLetterCode |-> <<"e", "n", "g">>,
               twoLetterCode |-> <<"e", "n">>]],
     [key |-> <<"h", "m", "n">>,
      info |-> [languageName |-> <<"H", "m", "o", "n", "g">>,
               threeLetterCode |-> <<"h", "m", "n">>,
               twoLetterCode |-> <<"h", "m">>]],
     [key |-> <<"h", "t">>,
      info |-> [languageName |-> <<"H", "a", "i", "t", "i", "a", "n", " ", "C", "r", "e", "o", "l", "e">>,
               threeLetterCode |-> <<"h", "a", "t">>,
               twoLetterCode |-> <<"h", "t">>]],
     [key |-> <<"l", "o">>,
      info |-> [languageName |-> <<"L", "a", "o">>,
               threeLetterCode |-> <<"l", "a", "o">>,
               twoLetterCode |-> <<"l", "o">>]],
     [key |-> <<"z", "u">>,
      info |-> [languageName |-> <<"Z", "u", "l", "u">>,
               threeLetterCode |-> <<"z", "u", "l">>,
               twoLetterCode |-> <<"z", "u">>]]
    >>

\* the properties with a lower-case name that a plain object inherits from
\* Object.prototype
ObjectPrototype == {<<"c", "o", "n", "s", "t", "r", "u", "c", "t", "o", "r">>, <<"_", "_", "p", "r", "o", "t", "o", "_", "_">>}

\* what languageData[name] gives for an inherited property: not an entry
Inherited(name) == [inherited |-> name]

\* the least of a set of positions, 0 if it is empty
First(positions) ==
    IF positions = {} THEN 0 ELSE CHOOSE k \in positions : \A j \in positions : k <= j

\* for (const key in languageData): the position of the first entry, in the
\* order of the table, with the three-letter code
ByThreeLetterCode(lower) ==
    First({k \in DOMAIN languageData : languageData[k].info.threeLetterCode = lower})

\* the position of the first entry whose name is, in lower case, the string
ByLanguageName(lower) ==
    First({k \in DOMAIN languageData : toLowerCase(languageData[k].info.languageName) = lower})

\* languageData[name]: an own property, an inherited one, or undefined
Property(name) ==
    IF \E k \in DOMAIN languageData : languageData[k].key = name
    THEN languageData[CHOOSE k \in DOMAIN languageData : languageData[k].key = name].info
    ELSE IF name \in ObjectPrototype THEN Inherited(name)
    ELSE Undefined

getLanguageInfo(code) ==
    LET lower == toLowerCase(code)
        found == Property(lower)
        byThree == ByThreeLetterCode(lower)
        byName == ByLanguageName(lower)
    IN IF found # Undefined THEN found
       ELSE IF byThree # 0 THEN languageData[byThree].info
       ELSE IF byName # 0 THEN languageData[byName].info
       ELSE Null

\* a string with its letters at even positions in upper case
Alternate(str) ==
    [i \in DOMAIN str |-> IF i % 2 = 0 THEN toUpperCase(<<str[i]>>)[1] ELSE str[i]]

\* the ways a string is written: as it stands, in lower case, in upper case,
\* in mixed case
Cases(str) == {str, toLowerCase(str), toUpperCase(str), Alternate(str)}

\* strings that are no key, code or name of an entry
Strangers ==
    {<<>>, <<"x", "x">>, <<"x", "y", "z">>, <<"k", "l", "i", "n", "g", "o", "n">>, <<"h">>}

\* the arguments of getLanguageInfo: every code and name of the table in
\* every case, and the strangers in every case
LanguageCodes ==
    UNION {Cases(languageData[k].info.twoLetterCode)
           \cup Cases(languageData[k].info.threeLetterCode)
           \cup Cases(languageData[k].info.languageName) : k \in DOMAIN languageData}
    \cup UNION {Cases(str) : str \in Strangers \cup ObjectPrototype}

GetLanguageInfo ==
    /\ lpc = "called"
    /\ language' = getLanguageInfo(languageCode)
    /\ lpc' = "returned"
    /\ UNCHANGED <<translator, codec, flow, languageCode>>

LookupInit ==
    /\ TranslatorIdle
    /\ CodecIdle
    /\ FlowIdle
    /\ languageCode \in LanguageCodes
    /\ lpc = "called"
    /\ language = Null

LookupNext == GetLanguageInfo

LookupSpec == LookupInit /\ [][LookupNext]_vars

\* ------------------------------------------------------------------ claims
\* the batch tasks started and not yet settled
InFlight == {b \in Tasks : status[b] \notin {"idle", "fulfilled", "rejected"}}

EventsOf(type) == {i \in DOMAIN events : events[i].type = type}

FinishEmitted == EventsOf("finish") # {}

\* the units the backend has returned to the batch tasks
Returned == UNION {Range(translated[b]) : b \in Tasks}

RECURSIVE Flatten(_)
Flatten(seqs) == IF seqs = <<>> THEN <<>> ELSE Head(seqs) \o Flatten(Tail(seqs))

\* C1: the number of batch tasks started and not yet settled never exceeds
\* concurrentRequests.
C1_ConcurrencyBound == Cardinality(InFlight) <= concurrentRequests

\* the limit is reached, with a task still to start and translate waiting in the race
C1_Witness ==
    /\ pc = "race"
    /\ concurrentRequests >= 2
    /\ Cardinality(InFlight) = concurrentRequests
    /\ nextBatch < Len(batches)

\* C2: once a backend call has failed, translate emits no finish signal, does
\* no reassembly and returns no caption sequence.
C2_BackendFailureIsFatal ==
    failed => /\ ~FinishEmitted
              /\ pc # "returned"
              /\ rejection # "emit"

\* C3: a translate call that returns yields as many captions as it was given,
\* with output[i].id = input[i].id for every i.
C3_IdPreservation ==
    pc = "returned" =>
        /\ Len(output) = Len(captions)
        /\ \A i \in DOMAIN captions : output[i].id = captions[i].id

\* translate returned although the batches completed out of input order
C3_Witness ==
    /\ pc = "returned"
    /\ Len(captions) = MaxCaptions
    /\ Len(results) = Len(captions)
    /\ \E i \in DOMAIN captions : results[i].id # captions[i].id

\* C4: while no backend call has failed no error signal is emitted, and when
\* translate returns every output text is a text the backend returned for that
\* caption's id.
C4_NoFallbackWithoutFailure ==
    ~failed =>
        /\ EventsOf("error") = {}
        /\ rejection = "none"
        /\ pc = "returned" =>
              \A i \in DOMAIN output :
                  \E u \in Returned : u.id = output[i].id /\ u.text = output[i].text

\* translate returned without a failure, the batches completing out of order
C4_Witness ==
    /\ pc = "returned"
    /\ ~failed
    /\ Len(batches) >= 2
    /\ \E i \in DOMAIN captions : results[i].id # captions[i].id

\* C5: against the stub backend that omits omitId a finite number of times,
\* translate eventually returns and the caption with that id carries the
\* translated text.
C5_RetryConvergence ==
    (omitTimes # Forever) =>
        <>(/\ pc = "returned"
           /\ \E i \in DOMAIN output :
                 /\ output[i].id = omitId
                 /\ output[i].text = Tr(captions[i].text))

\* translate returned after the stub omitted the id as often as the bound allows
C5_Witness ==
    /\ pc = "returned"
    /\ omitTimes = MaxOmit
    /\ omitted = MaxOmit
    /\ Len(batches) >= 2
    /\ \E i \in DOMAIN output :
          output[i].id = omitId /\ output[i].text = Tr(captions[i].text)

\* the batch task that owns omitId
OwnsOmitted(b) == \E i \in DOMAIN batches[b] : batches[b][i].id = omitId

\* C6: against the stub backend that never returns omitId, the task of that
\* batch never settles, translate neither returns nor rejects, no finish signal
\* is emitted, and the task calls the backend again and again: its retries
\* reach the bound of the count, and a call of it is in flight infinitely often.
C6_NeverReturnedNeverCompletes ==
    (omitTimes = Forever) =>
        /\ [](/\ pc \notin {"returned", "rejected"}
              /\ ~FinishEmitted
              /\ \A b \in Tasks : OwnsOmitted(b) => ~Settled(b))
        /\ <>(omitted = MaxOmit)
        /\ []<>(\E b \in Tasks : OwnsOmitted(b) /\ status[b] = "calling")

\* the owning task is in its retry loop, other tasks done, translate waiting
C6_Witness ==
    /\ omitTimes = Forever
    /\ omitted = MaxOmit
    /\ pc = "all"
    /\ \E b \in Tasks : OwnsOmitted(b) /\ status[b] = "calling"
    /\ \E b \in Tasks : status[b] = "fulfilled"

\* C7: every output caption has the timing fields of the input caption at the
\* same position, and differs from it in the text at most.
C7_TimingPreserved ==
    pc = "returned" =>
        /\ Len(output) = Len(captions)
        /\ \A i \in DOMAIN captions :
              /\ output[i].startTime = captions[i].startTime
              /\ output[i].startSeconds = captions[i].startSeconds
              /\ output[i].endTime = captions[i].endTime
              /\ output[i].endSeconds = captions[i].endSeconds
              /\ output[i] = [captions[i] EXCEPT !.text = output[i].text]

\* translate returned translated texts for batches that completed out of order
C7_Witness ==
    /\ pc = "returned"
    /\ Len(captions) >= 2
    /\ \A i \in DOMAIN captions : output[i].text # captions[i].text
    /\ \E i \in DOMAIN results : results[i].id # captions[i].id

\* C8: splitIntoBatches returns ceil(N/B) batches, each but the last of B
\* units, none empty, whose concatenation is the unit sequence.
C8_BatchingDeterminism ==
    pc # "idle" =>
        LET units == translateCaptions(captions)
            N == Len(units)
            B == batchSize
        IN /\ Len(batches) = (N + B - 1) \div B
           /\ \A k \in 1..(Len(batches) - 1) : Len(batches[k]) = B
           /\ \A k \in DOMAIN batches : Len(batches[k]) >= 1 /\ Len(batches[k]) <= B
           /\ Flatten(batches) = units

\* a split whose last batch is short
C8_Witness ==
    /\ pc # "idle"
    /\ Len(batches) >= 2
    /\ Len(batches[Len(batches)]) < batchSize

\* C9: when reassembly finds no translated unit for a caption, translate still
\* returns every caption, that one with its original text, and an error signal
\* names its id.
C9_MissNeverRejects ==
    (FinishEmitted /\ Unmatched(captions, results) # <<>>) =>
        /\ pc = "returned"
        /\ Len(output) = Len(captions)
        /\ \A i \in DOMAIN captions :
              FindIndex(results, captions[i].id) = 0 =>
                  /\ output[i].text = captions[i].text
                  /\ \E e \in EventsOf("error") : events[e].id = captions[i].id

\* C10: start is emitted once, before the first backend call, with the caption
\* and batch counts; finish at most once, after every started task has
\* settled and before any error signal.
C10_SignalOrder ==
    /\ Cardinality(EventsOf("start")) <= 1
    /\ Cardinality(EventsOf("finish")) <= 1
    /\ pc = "idle" => events = <<>>
    /\ pc # "idle" =>
          /\ events[1] = [type |-> "start", captions |-> Len(captions),
                          batches |-> Len(batches)]
          /\ Len(batches) = (Len(captions) + batchSize - 1) \div batchSize
    /\ (\E b \in Tasks : status[b] # "idle") => EventsOf("start") # {}
    /\ FinishEmitted => \A b \in Tasks : Settled(b)
    /\ \A e \in EventsOf("error") : \E f \in EventsOf("finish") : f < e

\* finish was emitted and an error signal followed it
C10_Witness ==
    /\ FinishEmitted
    /\ EventsOf("error") # {}
    /\ Len(batches) >= 2

\* ------------------------------------------------------ claims: SRTParser
\* parse has run on the document
Parsed == cpc \in {"parsed", "written", "reparsed", "done"}

\* the headers of the document have the widths the patterns ask for
Matchable(doc) == doc.shape.m = 2 /\ doc.shape.s = 2

\* the cues of the document whose header is written with sep, in document order
CuesWith(doc, sep) ==
    SelectSeq([i \in 1..Len(doc.texts) |-> i], LAMBDA i : CueSep(doc, i) = sep)

\* the cues whose header the pattern in use matches: the comma pattern if it
\* matches any header, else the period pattern
HeaderMatches(doc) ==
    IF ~Matchable(doc) THEN <<>>
    ELSE IF CuesWith(doc, ",") # <<>> THEN CuesWith(doc, ",")
    ELSE CuesWith(doc, ".")

\* C11: parse returns a caption sequence for every document: the empty
\* sequence when no header matches the comma or the period pattern, and
\* otherwise one caption per header match, in document order.
C11_OneCaptionPerHeaderMatch ==
    Parsed =>
        /\ Len(parsed) = Len(HeaderMatches(document))
        /\ \A k \in DOMAIN parsed :
               parsed[k].id = CueId(document, HeaderMatches(document)[k])

\* a document in period style with several cues has been parsed
C11_Witness ==
    /\ cpc = "parsed"
    /\ document.style = "period"
    /\ document.edited
    /\ Len(parsed) >= 2

\* stringify has run on the captions parsed, and parse on what it wrote
Reparsed == cpc \in {"reparsed", "done"}

\* the number of newlines of a text
Newlines(text) == Len(SelectSeq(text, LAMBDA c : c = NL))

\* C12: parsing what stringify wrote for a parsed caption sequence (line
\* terminator \n or \r\n) gives as many captions, each with the id, the
\* startTime, the endTime and the text of the caption at its position, also
\* for empty texts and for texts of three lines.
C12_RoundTrip ==
    Reparsed =>
        /\ Len(reparsed) = Len(parsed)
        /\ \A k \in DOMAIN parsed :
               /\ reparsed[k].id = parsed[k].id
               /\ reparsed[k].startTime = parsed[k].startTime
               /\ reparsed[k].endTime = parsed[k].endTime
               /\ reparsed[k].text = parsed[k].text

\* a sequence with an empty text and a text of three lines has made the round
\* trip with the line terminator \r\n
C12_Witness ==
    /\ cpc = "reparsed"
    /\ EOL = <<CR, NL>>
    /\ \E k \in DOMAIN parsed : parsed[k].text = <<>>
    /\ \E k \in DOMAIN parsed : Newlines(parsed[k].text) >= 2

\* stringify has run on the captions parsed
Written == cpc \in {"written", "reparsed", "done"}

\* the blocks of the captions with every newline of a text written as eol
RECURSIVE EveryNewlineAsEOL(_, _)
EveryNewlineAsEOL(caps, eol) ==
    IF caps = <<>> THEN <<>>
    ELSE Head(caps).id \o eol
         \o Head(caps).startTime \o Arrow \o Head(caps).endTime \o eol
         \o ReplaceAll(Head(caps).text, NL, eol) \o eol \o eol
         \o EveryNewlineAsEOL(Tail(caps), eol)

\* C13: stringify writes the text of every caption with each of its newlines
\* replaced by the line terminator EOL, however many lines the text has.
C13_EveryNewlineReplaced ==
    Written => written = EveryNewlineAsEOL(parsed, EOL)

\* HH:MM:SS,mmm
IsCanonical(time) ==
    /\ Len(time) = 12
    /\ \A p \in {1, 2, 4, 5, 7, 8, 10, 11, 12} : IsDigit(time[p])
    /\ time[3] = ":" /\ time[6] = ":" /\ time[9] = ","

\* the canonical form of the timestamp 1:02:0s.456 written with the widths of
\* the shape: short components padded on the left, milliseconds on the right
Canonical(shape, seconds) ==
    <<"0", "1", ":", "0", "2", ":", "0", Digits[seconds + 1], ",">>
    \o SubSeq(<<"4", "5", "6">>, 1, shape.ms) \o [i \in 1..(3 - shape.ms) |-> "0"]

\* C14: a cue whose timestamps have 1-digit hours, minutes or seconds or 1 or
\* 2 digits of milliseconds is parsed into a caption whose startTime and
\* endTime are the canonical HH:MM:SS,mmm forms of these timestamps, and every
\* timestamp parse stores is canonical.
C14_WidthTolerance ==
    Parsed =>
        /\ Len(document.texts) >= 1 =>
               /\ Len(parsed) >= 1
               /\ parsed[1].startTime = Canonical(document.shape, 1)
               /\ parsed[1].endTime = Canonical(document.shape, 2)
        /\ \A k \in DOMAIN parsed :
               IsCanonical(parsed[k].startTime) /\ IsCanonical(parsed[k].endTime)

\* parse has run on the document with periods for its commas
PeriodsParsed == cpc = "done"

\* C15: a document whose headers are written with commas and the same document
\* with periods for the commas parse into as many captions, with the same
\* startSeconds, endSeconds, startTime and endTime at every position.
C15_TimestampEquivalence ==
    PeriodsParsed /\ document.style = "comma" =>
        /\ Len(periods) = Len(parsed)
        /\ \A k \in DOMAIN parsed :
               /\ periods[k].startSeconds = parsed[k].startSeconds
               /\ periods[k].endSeconds = parsed[k].endSeconds
               /\ periods[k].startTime = parsed[k].startTime
               /\ periods[k].endTime = parsed[k].endTime

\* a comma document with several cues and short milliseconds has been parsed
\* in both writings
C15_Witness ==
    /\ PeriodsParsed
    /\ document.style = "comma"
    /\ document.shape.ms = 1
    /\ Len(parsed) >= 2
    /\ parsed[2].startSeconds = 3722400

\* the first lines of the block stringify writes for a caption: the id as
\* stored and the header
BlockHead(caption, eol) ==
    caption.id \o eol \o caption.startTime \o Arrow \o caption.endTime \o eol

\* w is made of one block per caption from the k-th on, in the order of caps:
\* each block starts with the head of its caption and ends with a blank line
RECURSIVE IsBlocks(_, _, _, _)
IsBlocks(w, caps, k, eol) ==
    IF k > Len(caps) THEN w = <<>>
    ELSE LET head == BlockHead(caps[k], eol)
         IN /\ At(w, 1, head)
            /\ \E cut \in (Len(head) + 2 * Len(eol))..Len(w) :
                   /\ At(w, cut - 2 * Len(eol) + 1, eol \o eol)
                   /\ IsBlocks(SubSeq(w, cut + 1, Len(w)), caps, k + 1, eol)

\* C16: stringify writes one block per caption, in the order of the captions,
\* each block starting with the id of its caption as stored: no id is
\* renumbered, moved, merged with an equal id or dropped.
C16_IdsVerbatim ==
    Written => IsBlocks(written, parsed, 1, EOL)

\* captions with the ids 7, 7 (and then 3) have been written
C16_Witness ==
    /\ cpc = "written"
    /\ Len(parsed) >= 2
    /\ parsed[1].id = <<"7">>
    /\ parsed[2].id = <<"7">>
    /\ \A k \in DOMAIN parsed : k > 2 => parsed[k].id = <<"3">>

\* ---------------------------------------------------- claims: batch tasks
\* the ids of the responses task b has accumulated
AccumulatedIds(b) == {translated[b][i].id : i \in DOMAIN translated[b]}

\* the units of batch b whose id is in no accumulated response, in batch order
StillMissing(b) == SelectSeq(batches[b], LAMBDA unit : unit.id \notin AccumulatedIds(b))

\* C17: a backend call of a batch task carries exactly the units of the
\* original batch whose id is in no response the task has accumulated, in
\* batch order (the whole batch at the first call), never a unit whose id has
\* been returned; and the task returns exactly when no such unit is left.
C17_CallsCarryTheMissingUnits ==
    \A b \in Tasks :
        /\ status[b] = "calling" => request[b] = StillMissing(b) /\ request[b] # <<>>
        /\ status[b] \in {"returning", "fulfilled"} => StillMissing(b) = <<>>

\* a retry with a part of its batch is in flight
C17_Witness ==
    \E b \in Tasks :
        /\ status[b] = "calling"
        /\ translated[b] # <<>>
        /\ Len(request[b]) >= 1
        /\ Len(request[b]) < Len(batches[b])

\* the batch tasks whose promise was fulfilled
Fulfilled == {b \in Tasks : status[b] = "fulfilled"}

\* the orders in which the tasks of set can have completed
Orders(set) ==
    {order \in [1..Cardinality(set) -> set] :
        \A i, j \in DOMAIN order : order[i] = order[j] => i = j}

CallFailed(b) ==
    \/ status[b] = "answered" /\ ~answer[b].ok
    \/ status[b] \in {"throwing", "rejected"}

\* C19: once a backend call of a batch task has failed, the task makes no
\* further backend call: no step puts a call of it in flight again, neither a
\* retry of the failed call nor a call for its missing units.
C19_NoCallAfterFailure ==
    [][\A b \in Tasks : CallFailed(b) => CallFailed(b)' /\ status'[b] # "calling"]_vars

\* a task was rejected by a failed retry, with units of its batch still missing
C19_Witness ==
    \E b \in Tasks :
        /\ status[b] = "rejected"
        /\ translated[b] # <<>>
        /\ StillMissing(b) # <<>>

\* translate waits in enqueue for a running task to complete
WaitsAtLimit == pc \in {"race", "raceWon", "raceLost"}

\* translate has left the loop that starts the tasks
LoopLeft == pc \in {"all", "allOk", "allFailed", "returned", "rejected"}

\* C20: with concurrentRequests = 1 a batch task is started only after the
\* task of the batch before it has settled, retries included; with
\* concurrentRequests above the number of batches translate never waits for a
\* task while it starts the tasks, and every task is started when it waits
\* for them at the end.
C20_SerialAndUnbounded ==
    /\ concurrentRequests = 1 =>
           \A b \in Tasks : b > 1 /\ status[b] # "idle" => Settled(b - 1)
    /\ pc # "idle" /\ concurrentRequests > Len(batches) =>
           /\ ~WaitsAtLimit
           /\ pc = "all" => \A b \in Tasks : status[b] # "idle"

\* with concurrentRequests = 1 the third task is calling after the first two
\* completed
C20_Witness ==
    /\ concurrentRequests = 1
    /\ Len(batches) >= 3
    /\ status[3] = "calling"
    /\ status[1] = "fulfilled"
    /\ status[2] = "fulfilled"

\* ------------------------------------------------ claims: translate, again
\* no two captions of the input share an id
UniqueIds == \A i, j \in DOMAIN captions : captions[i].id = captions[j].id => i = j

\* the input with every text replaced by the backend's translation of it
Translation(caps) == [i \in DOMAIN caps |-> [caps[i] EXCEPT !.text = Tr(caps[i].text)]]

\* the positions of the input captions that batch b holds
InputOfBatch(b) == (b - 1) * batchSize + 1 .. Min(b * batchSize, Len(captions))

\* unit is {id, text} of one of the input captions of batch b
UnitOfBatch(unit, b) ==
    /\ DOMAIN unit = {"id", "text"}
    /\ \E i \in InputOfBatch(b) : unit.id = captions[i].id /\ unit.text = captions[i].text

\* C21: for captions with unique ids and a backend that answers with
\* requested ids only and one text per id, the sequence translate returns is
\* a function of the input alone (every caption with the translation of its
\* text): it is the same whatever the interleaving of the batch tasks, the
\* order in which they complete, and the units the backend leaves out and is
\* asked for again.
C21_OutputIndependentOfSchedule ==
    (UniqueIds /\ pc = "returned") => output = Translation(captions)

\* C22: every backend call in flight, a first call or a retry, carries only
\* units {id, text} (no timing fields) with the id and the original text of an
\* input caption of the batch of its task, and was given the configured source
\* and target languages.
C22_CallsCarryOnlyBatchUnits ==
    \A b \in Tasks : status[b] = "calling" =>
        /\ \A k \in DOMAIN request[b] : UnitOfBatch(request[b][k], b)
        /\ languages[b] = <<sourceLanguage, targetLanguage>>

\* a retry in flight with languages that are not the defaults, after a first
\* call that carried more units
C22_Witness ==
    /\ sourceLanguage # defaultSourceLanguage
    /\ targetLanguage # defaultTargetLanguage
    /\ \E b \in Tasks :
          /\ status[b] = "calling"
          /\ omitted > 0
          /\ Len(request[b]) < Len(batches[b])
          /\ Len(request[b]) > 0

\* the objects that the input captions are
InputRefs == DOMAIN captions

\* C23: no step of a translate run, whether it goes on to return, to reject or
\* is still running, changes the input: the caption sequence keeps its length
\* and order and every caption its field values; and the records of the
\* returned sequence are new objects, one per caption, none of them an input
\* caption.
C23_InputNeverMutated ==
    /\ [][captions' = captions]_vars
    /\ [](pc = "returned" =>
            /\ Len(outputRefs) = Len(output)
            /\ \A i \in DOMAIN outputRefs : outputRefs[i] \notin InputRefs
            /\ \A i, j \in DOMAIN outputRefs : outputRefs[i] = outputRefs[j] => i = j)

\* translate returned every caption with a text that the input caption does
\* not have
C23_Witness ==
    /\ pc = "returned"
    /\ Len(captions) = MaxCaptions
    /\ Len(outputRefs) = MaxCaptions
    /\ \A i \in DOMAIN captions :
          output[i].text = Tr(captions[i].text) /\ captions[i].text = <<"src", i>>

\* ------------------------------------------------ claims: SRTParser, again
\* the header of cue i as the patterns read it: id, newline, start --> end
Header(doc, i) ==
    CueId(doc, i) \o <<NL>> \o Stamp(doc.shape, i, CueSep(doc, i)) \o Arrow
    \o Stamp(doc.shape, i + 1, CueSep(doc, i))

\* sub occurs in str
Contains(str, sub) ==
    \E p \in 0..(Len(str) - Len(sub)) : SubSeq(str, p + 1, p + Len(sub)) = sub

\* the number of comma-style cues before cue i: the position, among the
\* captions, of the caption that precedes cue i (0: none does)
Preceding(doc, i) == Len(SelectSeq(CuesWith(doc, ","), LAMBDA j : j < i))

\* the captions are those of the cues listed, one each and in order
DelimitedBy(caps, doc, cues) ==
    /\ Len(caps) = Len(cues)
    /\ \A k \in DOMAIN caps :
          /\ caps[k].id = CueId(doc, cues[k])
          /\ caps[k].startTime = correctFormat(Stamp(doc.shape, cues[k], CueSep(doc, cues[k])))

Owner(i) == (i - 1) \div batchSize + 1

\* C25: the translated text of every output caption is the text of a unit
\* that the batch task owning the caption got for the caption's id in answer
\* to a call that asked for it; a unit returned for an id that the call did
\* not ask for determines the text of no output caption.
C25_ForeignUnitsNeverUsed ==
    pc = "returned" =>
        \A i \in DOMAIN output :
            /\ output[i].text # ForeignText
            /\ output[i].text # captions[i].text =>
                   \E k \in DOMAIN translated[Owner(i)] :
                       /\ translated[Owner(i)][k].id = captions[i].id
                       /\ translated[Owner(i)][k].text = output[i].text
                       /\ translated[Owner(i)][k].text = Tr(captions[i].text)

\* ------------------------------------------- claims: batch tasks, again
\* no two units of the sequence have the same id
NoDuplicateId(units) == \A i, j \in DOMAIN units : units[i].id = units[j].id => i = j

\* C26: when the ids of a batch are unique (and the backend returns requested
\* ids only, each at most once per call), the accumulated result of its task
\* holds no two units with the same id at any point of the retry loop, and
\* holds every id of the batch exactly once when the task completes.
C26_AccumulatedIdsUnique ==
    \A b \in Tasks : NoDuplicateId(batches[b]) =>
        /\ NoDuplicateId(translated[b])
        /\ status[b] \in {"returning", "fulfilled"} =>
              /\ Len(translated[b]) = Len(batches[b])
              /\ \A i \in DOMAIN batches[b] :
                    Cardinality({k \in DOMAIN translated[b] :
                                    translated[b][k].id = batches[b][i].id}) = 1

\* a task of a batch with unique ids completed after retries that returned
\* its units one by one, the last unit of the batch first
C26_Witness ==
    \E b \in Tasks :
        /\ status[b] = "fulfilled"
        /\ Len(batches[b]) = MaxBatchSize
        /\ NoDuplicateId(batches[b])
        /\ \A k \in DOMAIN translated[b] :
              translated[b][k].id = batches[b][Len(batches[b]) + 1 - k].id

\* ------------------------------------------------- claims: empty input
\* C27: translate of an empty caption sequence makes no backend call (it has
\* no batch task), emits start with 0 captions and 0 batches and then finish
\* and nothing else, never rejects, goes on while it has not returned, and
\* returns the empty sequence.
C27_EmptyInput ==
    Len(captions) = 0 =>
        /\ Tasks = {}
        /\ pc # "rejected"
        /\ pc # "idle" => events # <<>> /\ events[1] = [type |-> "start", captions |-> 0, batches |-> 0]
        /\ \A k \in DOMAIN events : k > 1 => k = 2 /\ events[k] = [type |-> "finish"]
        /\ pc # "returned" => ENABLED Scheduler
        /\ pc = "returned" => Len(events) = 2 /\ output = <<>>

\* translate of the empty sequence has returned
C27_Witness ==
    /\ Len(captions) = 0
    /\ pc = "returned"
    /\ EventsOf("finish") # {}
    /\ queue = <<>>

\* ------------------------------------------------- claims: start order
\* the first backend call of task b has been issued
Started(b) == status[b] # "idle"

\* C28: batch tasks are started in batch order: the first backend call of
\* batch k + 1 is issued only when that of batch k has been, and a step that
\* issues a first call issues it for the first batch not yet started, and for
\* no other.
C28_StartedInBatchOrder ==
    /\ [](\A b \in Tasks : b > 1 /\ Started(b) => Started(b - 1))
    /\ [][\A b \in Tasks :
            (b \in DOMAIN status /\ ~Started(b) /\ status'[b] # "idle") =>
                /\ \A a \in 1..(b - 1) : Started(a)
                /\ \A c \in Tasks : c # b => status'[c] = status[c]]_vars

\* the last batch is started while the first is still waiting for its first
\* answer and another has completed
C28_Witness ==
    /\ Len(batches) = MaxCaptions
    /\ status[Len(batches)] = "calling"
    /\ translated[Len(batches)] = <<>>
    /\ status[1] = "calling"
    /\ translated[1] = <<>>
    /\ status[2] = "fulfilled"

\* ----------------------------------------------------- claims: settings
\* the value is a number, or a string that starts with a digit
Numeric(value) ==
    \/ value.type = "number"
    \/ value.type = "string" /\ value.str # <<>> /\ IsDigit(value.str[1])

PositiveInteger(value) == value.type = "number" /\ value.num >= 1

\* C29: when the stored settings hold no batchSize, or one that is not
\* numeric, getBatchSize returns 10; when they hold no concurrentRequests,
\* getConcurrentRequests returns 5; and the translator that the single-file
\* translate flow builds has a positive integer for its batch size and for
\* its concurrency limit.
C29_SettingsFallbacks ==
    fpc = "built" =>
        /\ ~Numeric(storedSettings.batchSize) => batchSizeRead = Num(10)
        /\ storedSettings.concurrentRequests = Undefined => concurrentRead = Num(5)
        /\ PositiveInteger(translatorInstance.batchSize)
        /\ PositiveInteger(translatorInstance.concurrentRequests)

\* ----------------------------------------------- claims: getLanguageInfo
\* the entries of the table
Entries == {languageData[k].info : k \in DOMAIN languageData}

\* the keys of the table
Keys == {languageData[k].key : k \in DOMAIN languageData}

\* the string is, but for letter case, a code or the name of the entry
Names(info, str) ==
    toLowerCase(str) \in {toLowerCase(info.twoLetterCode), toLowerCase(info.threeLetterCode),
                          toLowerCase(info.languageName)}

\* C30: getLanguageInfo returns an entry of the table when it is given the
\* entry's twoLetterCode, threeLetterCode or languageName in any letter case,
\* and null when it is given a string that is, in any letter case, no key of
\* the table and no three-letter code or name of an entry.
C30_LookupByCodeOrName ==
    lpc = "returned" =>
        /\ \A info \in Entries : Names(info, languageCode) => language = info
        /\ (/\ toLowerCase(languageCode) \notin Keys
            /\ \A info \in Entries :
                  /\ toLowerCase(languageCode) # toLowerCase(info.threeLetterCode)
                  /\ toLowerCase(languageCode) # toLowerCase(info.languageName))
           => language = Null

====
